---------------------------- MODULE Spec2Model ----------------------------
(***************************************************************************)
(* Model of reqif/parser.py: ReqIFStage1Parser.                            *)
(*                                                                         *)
(* The state is the lxml tree the parser holds (parse_reqif mutates it in  *)
(* place through strip_namespace_from_xml) and the log of parse_reqif      *)
(* invocations made on it, each with the tree it received, its outcome (a  *)
(* bundle or the exception raised) and the order of its presence checks    *)
(* and leaf-decoder calls.                                                 *)
(***************************************************************************)
EXTENDS Integers, Sequences, FiniteSets, TLC

VARIABLES tree, calls, proc

vars == <<tree, calls, proc>>

-----------------------------------------------------------------------------
(* Bounds *)

\* Total number of leaf elements (children of the five sections) of a document.
MaxLeaves == 2

\* Number of parse_reqif invocations made on one tree.
MaxParses == 2

-----------------------------------------------------------------------------
(* XML trees (lxml) *)

\* An element tag without a namespace ("REQ-IF" rather than "{uri}REQ-IF").
NoNs == ""

\* The nsmap key of the default namespace (Python's None).
NonePrefix == "None"

ConfigurationPrefix == "configuration"

DefaultUri == "http://www.omg.org/spec/ReqIF/20110401/reqif.xsd"

ConfigurationUri == "http://eclipse.org/rmf/pror/toolextensions/1.0"

Tag(ns, local) == [ns |-> ns, local |-> local]

\* The tag a plain string denotes in lxml: a local name in no namespace.
PlainTag(name) == Tag(NoNs, name)

NoData == [identifier |-> "", source |-> "", target |-> "", ok |-> TRUE, nid |-> 0]

Elem(tag, children, data) == [tag |-> tag, children |-> children, data |-> data]

Range(s) == {s[i] : i \in DOMAIN s}

\* Element.find(name): the first child with that tag, or None (<<>>).
Find(elem, name) ==
    LET hits == {i \in DOMAIN elem.children : elem.children[i].tag = PlainTag(name)}
    IN  IF hits = {} THEN <<>>
        ELSE <<elem.children[CHOOSE i \in hits : \A j \in hits : i <= j]>>

IsNone(found) == found = <<>>

\* The namespaces used by the tags of an element and its descendants.
RECURSIVE ElemNamespaces(_)
ElemNamespaces(elem) ==
    ({elem.tag.ns} \ {NoNs})
        \cup UNION {ElemNamespaces(elem.children[i]) : i \in DOMAIN elem.children}

\* etree.cleanup_namespaces: drop the declarations no element or attribute uses.
CleanupNamespaces(t) ==
    LET used == ElemNamespaces(t.root) \cup t.attrNs
        kept == {p \in DOMAIN t.nsmap : t.nsmap[p] \in used}
    IN  [t EXCEPT !.nsmap = [p \in kept |-> t.nsmap[p]]]

\* elem.tag = etree.QName(elem).localname, for every element of the tree.
RECURSIVE StripElem(_)
StripElem(elem) ==
    [elem EXCEPT !.tag = PlainTag(elem.tag.local),
                 !.children = [i \in DOMAIN elem.children |->
                                   StripElem(elem.children[i])]]

strip_namespace_from_xml(t) == CleanupNamespaces([t EXCEPT !.root = StripElem(t.root)])

-----------------------------------------------------------------------------
(* Leaf decoders: reqif.parsers.*, one per element kind *)

Decodable(elem) == elem.data.ok

Decode(kind, elem) ==
    [kind |-> kind, identifier |-> elem.data.identifier,
     source |-> elem.data.source, target |-> elem.data.target,
     nid |-> elem.data.nid]

-----------------------------------------------------------------------------
(* Outcomes of parse_reqif *)

Raise(exc, line, args) == [kind |-> "error", exc |-> exc, line |-> line, args |-> args]

\* A decoder's error, propagated unchanged from the call at `line`.
LeafDecodeError(decoder, line) == Raise("LeafDecodeError", line, <<decoder>>)

EmptyMap == <<>>

\* ReqIFBundle.create_empty(namespace, configuration)
create_empty(namespace, configuration) ==
    [kind |-> "bundle", namespace |-> namespace, configuration |-> configuration,
     data_types |-> <<>>, spec_object_types |-> <<>>, spec_objects |-> <<>>,
     spec_objects_lookup |-> EmptyMap, spec_relations |-> <<>>,
     spec_relations_parent_lookup |-> EmptyMap, specifications |-> <<>>]

\* ReqIFBundle(...): the bundle built at the end of parse_reqif.
ReqIFBundle(namespace, configuration, spec_objects, data_types, spec_object_types, spec_objects_lookup, spec_relations, spec_relations_parent_lookup, specifications) ==
    [kind |-> "bundle", namespace |-> namespace, configuration |-> configuration,
     data_types |-> data_types, spec_object_types |-> spec_object_types,
     spec_objects |-> spec_objects, spec_objects_lookup |-> spec_objects_lookup,
     spec_relations |-> spec_relations,
     spec_relations_parent_lookup |-> spec_relations_parent_lookup,
     specifications |-> specifications]

Ev(what, name) == <<what, name>>

\* What one invocation leaves behind: its outcome, the tree as mutated, and the
\* order of its passed presence checks and decoder calls.
Done(out, t, trace) == [out |-> out, tree |-> t, trace |-> trace]


-----------------------------------------------------------------------------
(* The loops of parse_reqif *)

\* The locals a loop starts from.
LoopStart(trace) ==
    [err |-> <<>>, items |-> <<>>, lookup |-> EmptyMap, spec_type |-> <<>>,
     trace |-> trace]

\* for xml_data_type in list(xml_data_types): ... data_types.append(data_type)
\* (data_types_lookup is filled too, and is read by nothing afterwards.)
RECURSIVE DataTypesLoop(_, _, _)
DataTypesLoop(xs, i, s) ==
    IF i > Len(xs) THEN s
    ELSE LET s1 == [s EXCEPT !.trace = Append(@, Ev("decode", "DataType"))]
         IN  IF ~Decodable(xs[i])
             THEN [s1 EXCEPT !.err = <<LeafDecodeError("DataType", 104)>>]
             ELSE DataTypesLoop(xs, i + 1,
                      [s1 EXCEPT !.items = Append(@, Decode("DataType", xs[i]))])

\* for xml_spec_object_type_xml in list(xml_spec_types): the decoder runs only
\* under the tag test, the append runs for every child, with whatever the
\* local spec_type holds (s.spec_type is <<>> while it is unbound).
RECURSIVE SpecTypesLoop(_, _, _)
SpecTypesLoop(xs, i, s) ==
    IF i > Len(xs) THEN s
    ELSE LET isType == xs[i].tag = PlainTag("SPEC-OBJECT-TYPE")
             s1 == IF isType
                   THEN [s EXCEPT !.trace = Append(@, Ev("decode", "SpecObjectType"))]
                   ELSE s
         IN  IF isType /\ ~Decodable(xs[i])
             THEN [s1 EXCEPT !.err = <<LeafDecodeError("SpecObjectType", 141)>>]
             ELSE LET s2 == IF isType
                            THEN [s1 EXCEPT !.spec_type =
                                                <<Decode("SpecObjectType", xs[i])>>]
                            ELSE s1
                  IN  IF s2.spec_type = <<>>
                      THEN [s2 EXCEPT !.err =
                                         <<Raise("UnboundLocalError", 142, <<"spec_type">>)>>]
                      ELSE SpecTypesLoop(xs, i + 1,
                               [s2 EXCEPT !.items = Append(@, s2.spec_type[1])])

\* for xml_specification in xml_specifications: ... specifications.append(...)
RECURSIVE SpecificationsLoop(_, _, _)
SpecificationsLoop(xs, i, s) ==
    IF i > Len(xs) THEN s
    ELSE LET s1 == [s EXCEPT !.trace = Append(@, Ev("decode", "Specification"))]
         IN  IF ~Decodable(xs[i])
             THEN [s1 EXCEPT !.err = <<LeafDecodeError("Specification", 146)>>]
             ELSE SpecificationsLoop(xs, i + 1,
                      [s1 EXCEPT !.items = Append(@, Decode("Specification", xs[i]))])

\* AppendTarget with the entry assigned instead of appended to:
\* spec_relations_parent_lookup[spec_relation.source] = [spec_relation.target]
AppendTarget_Assign(lookup, source, target) ==
    [k \in DOMAIN lookup \cup {source} |->
        IF k = source THEN <<target>> ELSE lookup[k]]

\* spec_relations_parent_lookup[spec_relation.source].append(spec_relation.target)
\* on a defaultdict(list).
AppendTarget(lookup, source, target) ==
    [k \in DOMAIN lookup \cup {source} |->
        IF k = source
        THEN Append(IF source \in DOMAIN lookup THEN lookup[source] ELSE <<>>, target)
        ELSE lookup[k]]

\* for xml_spec_relation in xml_spec_relations: ...
RECURSIVE SpecRelationsLoop(_, _, _)
SpecRelationsLoop(xs, i, s) ==
    IF i > Len(xs) THEN s
    ELSE LET s1 == [s EXCEPT !.trace = Append(@, Ev("decode", "SpecRelation"))]
         IN  IF ~Decodable(xs[i])
             THEN [s1 EXCEPT !.err = <<LeafDecodeError("SpecRelation", 154)>>]
             ELSE LET spec_relation == Decode("SpecRelation", xs[i])
                  IN  SpecRelationsLoop(xs, i + 1,
                          [s1 EXCEPT !.items = Append(@, spec_relation),
                                     !.lookup = AppendTarget(@, spec_relation.source,
                                                             spec_relation.target)])

\* SetItem that keeps an entry the key already has:
\* spec_objects_lookup.setdefault(spec_object.identifier, spec_object)
SetItem_KeepFirst(lookup, key, value) ==
    [k \in DOMAIN lookup \cup {key} |->
        IF k \in DOMAIN lookup THEN lookup[k] ELSE value]

\* spec_objects_lookup[spec_object.identifier] = spec_object
SetItem(lookup, key, value) ==
    [k \in DOMAIN lookup \cup {key} |-> IF k = key THEN value ELSE lookup[k]]

\* for xml_spec_object in xml_spec_objects: ...
RECURSIVE SpecObjectsLoop(_, _, _)
SpecObjectsLoop(xs, i, s) ==
    IF i > Len(xs) THEN s
    ELSE LET s1 == [s EXCEPT !.trace = Append(@, Ev("decode", "SpecObject"))]
         IN  IF ~Decodable(xs[i])
             THEN [s1 EXCEPT !.err = <<LeafDecodeError("SpecObject", 163)>>]
             ELSE LET spec_object == Decode("SpecObject", xs[i])
                  IN  SpecObjectsLoop(xs, i + 1,
                          [s1 EXCEPT !.items = Append(@, spec_object),
                                     !.lookup = SetItem(@, spec_object.identifier,
                                                        spec_object)])


-----------------------------------------------------------------------------
(* parse_reqif *)

\* xml_spec_relations if xml_spec_relations is not None else []
SpecRelationsOrEmpty(xml_spec_relations) ==
    IF ~IsNone(xml_spec_relations) THEN xml_spec_relations[1].children ELSE <<>>

\* The relations of the SPEC-RELATIONS section as located (None when absent):
\* the rebinding of lines 122-124, then the loop of lines 151-158.
SpecRelations(xml_spec_relations, trace) ==
    SpecRelationsLoop(SpecRelationsOrEmpty(xml_spec_relations), 1, LoopStart(trace))

\* AssertSpecifications with the assertion left out.
AssertSpecifications_Off(xml_specifications) == TRUE

\* assert xml_specifications is not None
AssertSpecifications(xml_specifications) == ~IsNone(xml_specifications)

\* if xml_spec_types is None or xml_spec_objects is None: raise NotImplementedError
TypesOrObjectsMissing(xml_spec_types, xml_spec_objects) ==
    IsNone(xml_spec_types) \/ IsNone(xml_spec_objects)

\* Lines 138-182: the four remaining loops and the bundle.
Assemble(t, namespace, configuration, data_types, xml_spec_types, xml_spec_objects, xml_spec_relations, xml_specifications, trace) ==
    LET st == SpecTypesLoop(xml_spec_types[1].children, 1, LoopStart(trace))
        sp == IF ~IsNone(xml_specifications)
              THEN SpecificationsLoop(xml_specifications[1].children, 1,
                                      LoopStart(st.trace))
              ELSE LoopStart(st.trace)
        sr == SpecRelations(xml_spec_relations, sp.trace)
        so == SpecObjectsLoop(xml_spec_objects[1].children, 1, LoopStart(sr.trace))
    IN  IF st.err # <<>> THEN Done(st.err[1], t, st.trace)
        ELSE IF sp.err # <<>> THEN Done(sp.err[1], t, sp.trace)
        ELSE IF sr.err # <<>> THEN Done(sr.err[1], t, sr.trace)
        ELSE IF so.err # <<>> THEN Done(so.err[1], t, so.trace)
        ELSE Done(ReqIFBundle(namespace, configuration, so.items, data_types,
                              st.items, so.lookup, sr.items, sr.lookup, sp.items),
                  t, so.trace)

\* Lines 95-136: the sections of REQ-IF-CONTENT and the data types.
Content(t, namespace, configuration, xml_core_content) ==
    LET xml_req_if_content == Find(xml_core_content, "REQ-IF-CONTENT")
        ric == xml_req_if_content[1]
        xml_data_types == Find(ric, "DATATYPES")
        tr1 == <<Ev("check", "REQ-IF-CONTENT"), Ev("check", "DATATYPES")>>
        dt == DataTypesLoop(xml_data_types[1].children, 1, LoopStart(tr1))
        xml_spec_types == Find(ric, "SPEC-TYPES")
        xml_spec_objects == Find(ric, "SPEC-OBJECTS")
        tr2 == Append(dt.trace, Ev("check", "SPEC-OBJECTS"))
        xml_spec_relations == Find(ric, "SPEC-RELATIONS")
        xml_specifications == Find(ric, "SPECIFICATIONS")
        tr3 == Append(tr2, Ev("check", "SPECIFICATIONS"))
        tr4 == Append(tr3, Ev("check", "SPEC-TYPES"))
    IN  IF IsNone(xml_req_if_content)
        THEN Done(Raise("AssertionError", 96, <<>>), t, <<>>)
        ELSE IF IsNone(xml_data_types)
        THEN Done(Raise("AssertionError", 99, <<>>), t,
                  <<Ev("check", "REQ-IF-CONTENT")>>)
        ELSE IF dt.err # <<>> THEN Done(dt.err[1], t, dt.trace)
        ELSE IF IsNone(xml_spec_objects)
        THEN Done(Raise("AssertionError", 116, <<>>), t, dt.trace)
        ELSE IF ~AssertSpecifications(xml_specifications)
        THEN Done(Raise("AssertionError", 131, <<>>), t, tr2)
        ELSE IF TypesOrObjectsMissing(xml_spec_types, xml_spec_objects)
        THEN Done(Raise("NotImplementedError", 136, <<>>), t, tr3)
        ELSE Assemble(t, namespace, configuration, dt.items, xml_spec_types,
                      xml_spec_objects, xml_spec_relations, xml_specifications, tr4)

\* ReqIFStage1Parser.parse_reqif(xml_reqif_root), on the tree t.
parse_reqif(t) ==
    LET namespace_info == t.nsmap
        namespace == namespace_info[NonePrefix]
        configuration == namespace_info[ConfigurationPrefix]
        xml_reqif_root_nons == strip_namespace_from_xml(t)
        xml_reqif == xml_reqif_root_nons.root
        xml_the_header == Find(xml_reqif, "THE-HEADER")
        xml_core_content == Find(xml_reqif, "CORE-CONTENT")
    IN  IF NonePrefix \notin DOMAIN namespace_info
        THEN Done(Raise("KeyError", 54, <<NonePrefix>>), t, <<>>)
        ELSE IF ConfigurationPrefix \notin DOMAIN namespace_info
        THEN Done(Raise("KeyError", 55, <<ConfigurationPrefix>>), t, <<>>)
        ELSE IF xml_reqif.tag # PlainTag("REQ-IF")
        THEN Done(Raise("NotImplementedError", 67, <<>>), xml_reqif_root_nons, <<>>)
        ELSE IF Len(xml_reqif.children) = 0
        THEN Done(create_empty(namespace, configuration), xml_reqif_root_nons, <<>>)
        ELSE IF IsNone(xml_the_header)
        THEN Done(create_empty(namespace, configuration), xml_reqif_root_nons, <<>>)
        ELSE IF IsNone(xml_core_content)
        THEN Done(Raise("NotImplementedError", 86, <<"None">>),
                  xml_reqif_root_nons, <<>>)
        ELSE Content(xml_reqif_root_nons, namespace, configuration,
                     xml_core_content[1])


-----------------------------------------------------------------------------
(* Documents: the files parse() is given *)

Sections == {"DATATYPES", "SPEC-TYPES", "SPEC-OBJECTS", "SPEC-RELATIONS",
             "SPECIFICATIONS"}

Leaf(tag, identifier, source, target, ok) ==
    [tag |-> tag, identifier |-> identifier, source |-> source, target |-> target,
     ok |-> ok]

\* The children a section is given: well-formed ones and one the decoder rejects.
Leaves(section) ==
    CASE section = "DATATYPES" ->
            {Leaf("DATATYPE-DEFINITION-STRING", "DT-1", "", "", TRUE),
             Leaf("DATATYPE-DEFINITION-STRING", "", "", "", FALSE)}
      [] section = "SPEC-TYPES" ->
            {Leaf("SPEC-OBJECT-TYPE", "SOT-1", "", "", TRUE),
             Leaf("SPEC-OBJECT-TYPE", "", "", "", FALSE),
             Leaf("SPECIFICATION-TYPE", "ST-1", "", "", TRUE)}
      [] section = "SPEC-OBJECTS" ->
            {Leaf("SPEC-OBJECT", "SO-1", "", "", TRUE),
             Leaf("SPEC-OBJECT", "SO-2", "", "", TRUE),
             Leaf("SPEC-OBJECT", "", "", "", FALSE)}
      [] section = "SPEC-RELATIONS" ->
            {Leaf("SPEC-RELATION", "R", "SO-1", "SO-2", TRUE),
             Leaf("SPEC-RELATION", "R", "SO-1", "SO-1", TRUE),
             Leaf("SPEC-RELATION", "R", "SO-2", "SO-1", TRUE),
             Leaf("SPEC-RELATION", "", "", "", FALSE)}
      [] section = "SPECIFICATIONS" ->
            {Leaf("SPECIFICATION", "S-1", "", "", TRUE),
             Leaf("SPECIFICATION", "", "", "", FALSE)}

SectionNo(section) ==
    CASE section = "DATATYPES" -> 1
      [] section = "SPEC-TYPES" -> 2
      [] section = "SPEC-OBJECTS" -> 3
      [] section = "SPEC-RELATIONS" -> 4
      [] section = "SPECIFICATIONS" -> 5

SectionOrder == <<"DATATYPES", "SPEC-TYPES", "SPEC-OBJECTS", "SPEC-RELATIONS",
                  "SPECIFICATIONS">>

\* How many children each section has: at most MaxLeaves in all, none in a
\* section the document does not have.
Shapes(present) ==
    {n \in [Sections -> 0 .. MaxLeaves] :
        /\ \A s \in Sections \ present : n[s] = 0
        /\ n["DATATYPES"] + n["SPEC-TYPES"] + n["SPEC-OBJECTS"]
             + n["SPEC-RELATIONS"] + n["SPECIFICATIONS"] <= MaxLeaves}

\* The namespace declarations of the root element, and whether an attribute
\* of the document is in the configuration namespace.
Declarations ==
    {d \in [default : BOOLEAN, configuration : BOOLEAN, confAttr : BOOLEAN] :
        d.confAttr => d.configuration}

\* etree.parse of the file: every element without a prefix is in the default
\* namespace when the root declares one.
MkTree(decl, rootLocal, header, body, present, kids) ==
    LET ns == IF decl.default THEN DefaultUri ELSE NoNs
        leaf(section, i) ==
            LET l == kids[section][i]
            IN  Elem(Tag(ns, l.tag), <<>>,
                     [identifier |-> l.identifier, source |-> l.source,
                      target |-> l.target, ok |-> l.ok,
                      nid |-> 10 * SectionNo(section) + i])
        section(s) == Elem(Tag(ns, s), [i \in DOMAIN kids[s] |-> leaf(s, i)], NoData)
        secs == SelectSeq(SectionOrder, LAMBDA s : s \in present)
        ric == Elem(Tag(ns, "REQ-IF-CONTENT"),
                    [i \in DOMAIN secs |-> section(secs[i])], NoData)
        core == Elem(Tag(ns, "CORE-CONTENT"),
                     IF body = "content" THEN <<ric>> ELSE <<>>, NoData)
        top == (IF header THEN <<Elem(Tag(ns, "THE-HEADER"), <<>>, NoData)>> ELSE <<>>)
                 \o (IF body = "none" THEN <<>> ELSE <<core>>)
        prefixes == (IF decl.default THEN {NonePrefix} ELSE {})
                      \cup (IF decl.configuration THEN {ConfigurationPrefix} ELSE {})
    IN  [nsmap |-> [p \in prefixes |->
                        IF p = NonePrefix THEN DefaultUri ELSE ConfigurationUri],
         attrNs |-> IF decl.confAttr THEN {ConfigurationUri} ELSE {},
         root |-> Elem(Tag(ns, rootLocal), top, NoData)]

NoKids == [s \in Sections |-> <<>>]

-----------------------------------------------------------------------------
(* The state machine *)

Call(input, r) == [input |-> input, out |-> r.out, trace |-> r.trace]

Init ==
    /\ tree = <<>>
    /\ calls = <<>>
    /\ proc = "running"

\* ReqIFStage1Parser.parse(input_path) on a file that is not well-formed XML:
\* the error is printed and the process exits.
ParseMalformed ==
    /\ proc = "running"
    /\ tree = <<>>
    /\ proc' = "exited"
    /\ UNCHANGED <<tree, calls>>

\* ReqIFStage1Parser.parse(input_path) on a well-formed file: etree.parse, then
\* parse_reqif on the tree.
Load(fresh) ==
    LET r == parse_reqif(fresh)
    IN  /\ tree' = <<r.tree>>
        /\ calls' = <<Call(fresh, r)>>
        /\ UNCHANGED proc

Parse ==
    /\ proc = "running"
    /\ tree = <<>>
    /\ \E decl \in Declarations, rootLocal \in {"REQ-IF", "REQ-IF-HEADER"},
          header \in BOOLEAN, body \in {"none", "core", "content"} :
        \/ /\ body # "content"
           /\ Load(MkTree(decl, rootLocal, header, body, {}, NoKids))
        \/ /\ body = "content"
           /\ \E present \in SUBSET Sections :
                \E n \in Shapes(present) :
                  \E dt \in [1 .. n["DATATYPES"] -> Leaves("DATATYPES")],
                     st \in [1 .. n["SPEC-TYPES"] -> Leaves("SPEC-TYPES")],
                     so \in [1 .. n["SPEC-OBJECTS"] -> Leaves("SPEC-OBJECTS")],
                     sr \in [1 .. n["SPEC-RELATIONS"] -> Leaves("SPEC-RELATIONS")],
                     sp \in [1 .. n["SPECIFICATIONS"] -> Leaves("SPECIFICATIONS")] :
                    Load(MkTree(decl, rootLocal, header, body, present,
                                [s \in Sections |->
                                    CASE s = "DATATYPES" -> dt
                                      [] s = "SPEC-TYPES" -> st
                                      [] s = "SPEC-OBJECTS" -> so
                                      [] s = "SPEC-RELATIONS" -> sr
                                      [] s = "SPECIFICATIONS" -> sp]))

\* parse_reqif invoked again on the tree a caller still holds.
ParseReqif ==
    /\ proc = "running"
    /\ tree # <<>>
    /\ Len(calls) < MaxParses
    /\ LET r == parse_reqif(tree[1])
       IN  /\ tree' = <<r.tree>>
           /\ calls' = Append(calls, Call(tree[1], r))
    /\ UNCHANGED proc

Next == ParseMalformed \/ Parse \/ ParseReqif

Spec == Init /\ [][Next]_vars

-----------------------------------------------------------------------------
(* Documents as the specification describes them: by local tag name *)

\* The first child of elem with the local name `name`, or <<>>.
Kid(elem, name) ==
    LET hits == {i \in DOMAIN elem.children : elem.children[i].tag.local = name}
    IN  IF hits = {} THEN <<>>
        ELSE <<elem.children[CHOOSE i \in hits : \A j \in hits : i <= j]>>

RootIsReqIf(t) == t.root.tag.local = "REQ-IF"

HasHeader(t) == Kid(t.root, "THE-HEADER") # <<>>

CoreOf(t) == Kid(t.root, "CORE-CONTENT")

ContentOf(t) == IF CoreOf(t) = <<>> THEN <<>> ELSE Kid(CoreOf(t)[1], "REQ-IF-CONTENT")

SectionOf(t, s) == IF ContentOf(t) = <<>> THEN <<>> ELSE Kid(ContentOf(t)[1], s)

SectionKids(t, s) == IF SectionOf(t, s) = <<>> THEN <<>> ELSE SectionOf(t, s)[1].children

Mandatory == Sections \ {"SPEC-RELATIONS"}

\* The required sections that cannot be located in the document.
Missing(t) ==
    (IF CoreOf(t) = <<>> THEN {"CORE-CONTENT"} ELSE {})
        \cup (IF ContentOf(t) = <<>> THEN {"REQ-IF-CONTENT"} ELSE {})
        \cup {s \in Mandatory : SectionOf(t, s) = <<>>}

AllDecodable(t) ==
    \A s \in Sections : \A i \in DOMAIN SectionKids(t, s) : SectionKids(t, s)[i].data.ok

DeclaresBoth(t) == {NonePrefix, ConfigurationPrefix} \subseteq DOMAIN t.nsmap

\* A namespace value that is absent (Python's None).
Absent == "None"

Captured(t, prefix) == IF prefix \in DOMAIN t.nsmap THEN t.nsmap[prefix] ELSE Absent

Decodes(trace) == {i \in DOMAIN trace : trace[i][1] = "decode"}

\* The error kinds of the specification, as the exceptions of parse_reqif.
IsUnexpectedRootElement(out) ==
    out.kind = "error" /\ out.exc = "NotImplementedError" /\ out.line = 67

IsMissingRequiredSection(out) ==
    /\ out.kind = "error"
    /\ out.exc \in {"NotImplementedError", "AssertionError"}
    /\ out.line \in {86, 96, 99, 116, 131, 136}

-----------------------------------------------------------------------------
(* Claims *)

\* C1: a document with root REQ-IF and a THE-HEADER in which some required
\* section is absent, all its leaves decodable, makes parse_reqif fail with a
\* MissingRequiredSection error that names a missing section.  Stated for the
\* documents that declare both namespaces, where the namespace lookup of C4
\* cannot be what fails.
C1_MissingSectionNamed ==
    \A i \in DOMAIN calls :
        LET c == calls[i]
        IN  (/\ RootIsReqIf(c.input) /\ HasHeader(c.input)
             /\ DeclaresBoth(c.input) /\ AllDecodable(c.input)
             /\ Missing(c.input) # {})
            => /\ IsMissingRequiredSection(c.out)
               /\ Range(c.out.args) \cap Missing(c.input) # {}

\* The decoded SPEC-OBJECT-TYPE children of SPEC-TYPES, in document order.
TypeEntries(t) ==
    LET sel == SelectSeq(SectionKids(t, "SPEC-TYPES"),
                         LAMBDA e : e.tag.local = "SPEC-OBJECT-TYPE")
    IN  [i \in DOMAIN sel |-> Decode("SpecObjectType", sel[i])]

\* C2: on a complete document (both namespaces declared, no section missing,
\* every leaf decodable) parse_reqif succeeds and specObjectTypes holds one
\* entry per SPEC-OBJECT-TYPE child of SPEC-TYPES, in document order, whatever
\* other children SPEC-TYPES has and wherever they stand.
C2_OnlySpecObjectTypes ==
    \A i \in DOMAIN calls :
        LET c == calls[i]
        IN  (/\ RootIsReqIf(c.input) /\ HasHeader(c.input)
             /\ DeclaresBoth(c.input) /\ AllDecodable(c.input)
             /\ Missing(c.input) = {})
            => /\ c.out.kind = "bundle"
               /\ c.out.spec_object_types = TypeEntries(c.input)

\* C3: when parse_reqif has returned a bundle for a tree, a second parse_reqif
\* on the same tree returns an equal bundle.
C3_SecondParseEqual ==
    (Len(calls) >= 2 /\ calls[1].out.kind = "bundle")
        => calls[2].out = calls[1].out

\* C4: a root element that lacks the default or the configuration namespace
\* declaration does not make parse_reqif fail on the lookup of that
\* declaration, and a bundle returned for it carries the namespace as absent.
C4_MissingNamespaceTolerated ==
    \A i \in DOMAIN calls :
        LET c == calls[i]
        IN  ~DeclaresBoth(c.input)
            => /\ ~(c.out.kind = "error" /\ c.out.exc = "KeyError")
               /\ c.out.kind = "bundle"
                    => /\ c.out.namespace = Captured(c.input, NonePrefix)
                       /\ c.out.configuration = Captured(c.input, ConfigurationPrefix)

\* C5: a document whose root is not REQ-IF makes parse_reqif fail with
\* UnexpectedRootElement, whatever its children and namespace declarations.
C5_UnexpectedRoot ==
    \A i \in DOMAIN calls :
        ~RootIsReqIf(calls[i].input) => IsUnexpectedRootElement(calls[i].out)

\* C6: a document with root REQ-IF and no children, or no THE-HEADER child,
\* makes parse_reqif return, without any decoder call, a bundle whose
\* sequences and mappings are all empty and whose namespace values are those
\* of the root element.
C6_EmptyBundle ==
    \A i \in DOMAIN calls :
        LET c == calls[i]
        IN  (RootIsReqIf(c.input)
               /\ (Len(c.input.root.children) = 0 \/ ~HasHeader(c.input)))
            => /\ c.out.kind = "bundle"
               /\ c.out.data_types = <<>> /\ c.out.spec_object_types = <<>>
               /\ c.out.spec_objects = <<>> /\ c.out.spec_relations = <<>>
               /\ c.out.specifications = <<>>
               /\ DOMAIN c.out.spec_objects_lookup = {}
               /\ DOMAIN c.out.spec_relations_parent_lookup = {}
               /\ c.out.namespace = Captured(c.input, NonePrefix)
               /\ c.out.configuration = Captured(c.input, ConfigurationPrefix)
               /\ Decodes(c.trace) = {}

\* The targets of the relations with source s, in the order of rels.
TargetsOf(rels, s) ==
    LET sel == SelectSeq(rels, LAMBDA r : r.source = s)
    IN  [i \in DOMAIN sel |-> sel[i].target]

RECURSIVE SumOfLengths(_, _)
SumOfLengths(lookup, keys) ==
    IF keys = {} THEN 0
    ELSE LET k == CHOOSE x \in keys : TRUE
         IN  Len(lookup[k]) + SumOfLengths(lookup, keys \ {k})

\* C7: in every bundle returned, relationTargetsBySource has exactly the
\* sources of specRelations as keys, maps each source to the targets of its
\* relations in document order, duplicates kept, and its values' lengths sum
\* to the number of relations.
C7_RelationIndex ==
    \A i \in DOMAIN calls :
        LET b == calls[i].out
        IN  b.kind = "bundle"
            => /\ DOMAIN b.spec_relations_parent_lookup
                    = {b.spec_relations[j].source : j \in DOMAIN b.spec_relations}
               /\ \A s \in DOMAIN b.spec_relations_parent_lookup :
                    b.spec_relations_parent_lookup[s] = TargetsOf(b.spec_relations, s)
               /\ SumOfLengths(b.spec_relations_parent_lookup,
                               DOMAIN b.spec_relations_parent_lookup)
                    = Len(b.spec_relations)

\* A bundle in which one source has two relations, with different targets.
C7_Witness ==
    \E i \in DOMAIN calls :
        LET b == calls[i].out
        IN  /\ b.kind = "bundle"
            /\ Len(b.spec_relations) = 2
            /\ DOMAIN b.spec_relations_parent_lookup = {"SO-1"}
            /\ b.spec_relations_parent_lookup["SO-1"] = <<"SO-2", "SO-1">>

\* The document with the identifiers of its spec-objects made pairwise distinct.
RECURSIVE DistinctIds(_, _)
DistinctIds(elem, inside) ==
    [elem EXCEPT !.data = IF inside THEN [@ EXCEPT !.identifier = elem.data.nid] ELSE @,
                 !.children = [i \in DOMAIN elem.children |->
                                  DistinctIds(elem.children[i],
                                              elem.tag.local = "SPEC-OBJECTS")]]

LastWith(objs, id) ==
    objs[CHOOSE i \in DOMAIN objs :
            /\ objs[i].identifier = id
            /\ \A j \in DOMAIN objs : objs[j].identifier = id => j <= i]

WithEmptyRelations(t) ==
    LET ci == CHOOSE i \in DOMAIN t.root.children :
                  t.root.children[i] = CoreOf(t)[1]
        ri == CHOOSE i \in DOMAIN CoreOf(t)[1].children :
                  CoreOf(t)[1].children[i] = ContentOf(t)[1]
    IN  [t EXCEPT !.root.children[ci].children[ri].children =
                      Append(@, Elem(Tag(t.root.tag.ns, "SPEC-RELATIONS"), <<>>, NoData))]

\* C9: on a complete document without a SPEC-RELATIONS section (both
\* namespaces declared, every mandatory section present, every leaf decodable)
\* parse_reqif succeeds, the bundle has specRelations and
\* relationTargetsBySource empty, and it is the bundle of the same document
\* with an empty SPEC-RELATIONS section.
C9_SucceedsWithoutRelations ==
    \A i \in DOMAIN calls :
        LET c == calls[i]
            twin == parse_reqif(WithEmptyRelations(c.input)).out
        IN  (/\ RootIsReqIf(c.input) /\ HasHeader(c.input)
             /\ DeclaresBoth(c.input) /\ AllDecodable(c.input)
             /\ Missing(c.input) = {}
             /\ SectionOf(c.input, "SPEC-RELATIONS") = <<>>)
            => /\ c.out.kind = "bundle"
               /\ c.out.spec_relations = <<>>
               /\ DOMAIN c.out.spec_relations_parent_lookup = {}
               /\ c.out = twin

Checked == {"SPEC-TYPES", "SPEC-OBJECTS", "SPECIFICATIONS"}

\* C10: a decoder other than the data-type decoder is called only after the
\* presence checks of SPEC-TYPES, SPEC-OBJECTS and SPECIFICATIONS have all
\* passed, the data-type decoder is called before each of them, and on a
\* document with a header in which one of the three is missing parse_reqif
\* fails having called no decoder but the data-type decoder, so that a leaf
\* decode error it fails with is the data-type decoder's.
C10_DecodersAfterChecks ==
    \A i \in DOMAIN calls :
        LET c == calls[i]
            tr == c.trace
        IN  /\ \A j \in Decodes(tr) :
                 tr[j][2] # "DataType"
                    => \A s \in Checked : \E k \in 1 .. (j - 1) : tr[k] = Ev("check", s)
            /\ \A j \in Decodes(tr) :
                 tr[j][2] = "DataType"
                    => \A k \in DOMAIN tr : tr[k][1] = "check" /\ tr[k][2] \in Checked
                                              => j < k
            /\ (/\ RootIsReqIf(c.input) /\ HasHeader(c.input)
                /\ Missing(c.input) \cap Checked # {})
               => /\ \A j \in Decodes(tr) : tr[j][2] = "DataType"
                  /\ c.out.kind = "error"
                  /\ c.out.exc = "LeafDecodeError" => c.out.args = <<"DataType">>

\* The data-type decoder has run and the parse then failed on a missing
\* SPEC-TYPES, SPEC-OBJECTS or SPECIFICATIONS.
C10_Witness ==
    \E i \in DOMAIN calls :
        LET c == calls[i]
        IN  /\ Missing(c.input) # {} /\ Missing(c.input) \subseteq Checked
            /\ Decodes(c.trace) # {}
            /\ IsMissingRequiredSection(c.out)
            /\ \E s \in Sections \ {"DATATYPES"} : SectionKids(c.input, s) # <<>>

=============================================================================
